---- MODULE Spec2Model ----
(***************************************************************************)
(* Model of the PDN connectivity procedure of the NAS ESM sublayer          *)
(* (SRC/NAS/ESM/PdnConnectivity.c): the per-UE table of PDN connections     *)
(* ctx->esm_data_ctx.pdn[], its counter n_pdns, and the procedure entry     *)
(* points esm_proc_pdn_connectivity_request / _failure with the static      *)
(* helpers _pdn_connectivity_create / _pdn_connectivity_delete they call.   *)
(***************************************************************************)
EXTENDS Integers, Sequences, FiniteSets, TLC

VARIABLES n_pdns, pdn, heap, corrupt, last, hist, ie

vars == <<n_pdns, pdn, heap, corrupt, last, hist, ie>>

(***************************************************************************)
(* Constants of the headers the source includes.                            *)
(***************************************************************************)

\* Size of the table pdn[]; esmData.h is not among the sources, so the size
\* is a parameter of the model.
ESM_DATA_PDN_MAX == 3

\* Capacity of esm_pdn_t.ip_addr.
ESM_DATA_IP_ADDRESS_SIZE == 4

\* "No procedure transaction identity assigned" (esm_pt.h).
ESM_PT_UNASSIGNED == 0

RETURNok == 0

RETURNerror == -1

ESM_CAUSE_SUCCESS == "ESM_CAUSE_SUCCESS"

ESM_CAUSE_INSUFFICIENT_RESOURCES == "ESM_CAUSE_INSUFFICIENT_RESOURCES"

ESM_PDN_REQUEST_INITIAL == "ESM_PDN_REQUEST_INITIAL"

ESM_PDN_REQUEST_EMERGENCY == "ESM_PDN_REQUEST_EMERGENCY"

ESM_PDN_TYPE_IPV4 == 1

ESM_PDN_TYPE_IPV6 == 2

\* A null pointer; a non-null pointer to an object x is <<x>>.
NULL == <<>>

(***************************************************************************)
(* Bounds of the model.                                                     *)
(***************************************************************************)

\* How many negative identifiers the failure trigger is tried with.
MaxNeg == 1

\* A valid procedure transaction identity (1..254).
SomePti == 5

\* A byte of an access point name or of a message.
SomeByte == 97

\* A second byte.
OtherByte == 98

Slots == 0 .. (ESM_DATA_PDN_MAX - 1)

\* The pti values a request is made with: esm_proc_pdn_connectivity_request
\* takes any int.
PtiSet == {ESM_PT_UNASSIGNED, SomePti}

\* The pid values the failure trigger is called with: every slot, the first
\* value past the table, and negative values such as the RETURNerror of a
\* failed request.
PidSet == (0 - MaxNeg) .. ESM_DATA_PDN_MAX

\* The same without the negative values.
PidSetInRange == 0 .. ESM_DATA_PDN_MAX

OctetString(bytes) == <<[length |-> Len(bytes), value |-> bytes]>>

ApnSet == {OctetString(<<SomeByte>>)}

AddrSet == {OctetString(<<>>)}

(***************************************************************************)
(* esm_pdn_t after memset (pdn, 0, sizeof (esm_pdn_t)).                     *)
(***************************************************************************)
ZeroPdn ==
  [pti |-> 0, is_emergency |-> FALSE,
   apn |-> [length |-> 0, value |-> NULL],
   ip_addr |-> [k \in 1 .. ESM_DATA_IP_ADDRESS_SIZE |-> 0],
   type |-> 0]

Occupied(t) == {i \in DOMAIN t : t[i].data # NULL}

\* The record of the last call: which entry point, its argument, what the
\* table helper returned (inner), what the entry point returned (rc), the
\* cause it set, the blocks it freed, whether the record it asked for could
\* not be allocated, whether it read pdn[] outside the array, and where the call
\* stands in a request / failure / request or failure / failure sequence;
\* then the request type and the access point name a request was given,
\* whether the call returned, the is_standalone flag and the message of a
\* reject, the primitives the call handed to emm_sap_send, and the address
\* and the PDN type a request was given.
NoCall ==
  [op |-> "none", arg |-> 0, inner |-> 0, rc |-> 0, cause |-> ESM_CAUSE_SUCCESS,
   nfree |-> 0, nomem |-> FALSE, oob |-> FALSE, seq |-> 0, ref |-> 0,
   rtype |-> ESM_PDN_REQUEST_INITIAL, apn |-> NULL, returned |-> TRUE,
   flag |-> FALSE, msg |-> NULL, sent |-> <<>>,
   addr |-> NULL, ptype |-> 0]

(***************************************************************************)
(* _pdn_connectivity_create                                                 *)
(***************************************************************************)

\* The search stopping one entry short of the table.
RECURSIVE ScanShort(_, _)
ScanShort(t, pid) ==
  IF pid < ESM_DATA_PDN_MAX - 1
    THEN IF t[pid].data # NULL THEN ScanShort(t, pid + 1) ELSE pid
    ELSE ESM_DATA_PDN_MAX

\* The search for an available entry: the first pid whose data is null, or
\* ESM_DATA_PDN_MAX.
RECURSIVE Scan(_, _)
Scan(t, pid) ==
  IF pid < ESM_DATA_PDN_MAX
    THEN IF t[pid].data # NULL THEN Scan(t, pid + 1) ELSE pid
    ELSE pid

\* The search taking the last free entry instead of the first.
FirstFreeHigh(t) ==
  IF \A i \in DOMAIN t : t[i].data # NULL
    THEN ESM_DATA_PDN_MAX
    ELSE CHOOSE i \in DOMAIN t :
           t[i].data = NULL /\ \A j \in DOMAIN t : t[j].data = NULL => j <= i

FirstFree(t) == Scan(t, 0)

\* The access point name stored in the new record: a copy of the bytes in a
\* buffer of length + 1 bytes closed by a zero byte, when apn is given, is
\* not empty and the buffer could be allocated.
StoredApn(apn, apn_ok) ==
  IF apn # NULL /\ apn[1].length > 0 /\ apn_ok
    THEN [length |-> apn[1].length,
          value |-> SubSeq(apn[1].value, 1, apn[1].length) \o <<0>>]
    ELSE [length |-> 0, value |-> NULL]

\* The address copied whole, past the capacity of the buffer when it is
\* longer.
StoredAddrNoClamp(pdn_addr) ==
  IF pdn_addr # NULL /\ pdn_addr[1].length > 0
    THEN LET length == pdn_addr[1].length
             size == IF length < ESM_DATA_IP_ADDRESS_SIZE
                       THEN ESM_DATA_IP_ADDRESS_SIZE ELSE length
         IN  [k \in 1 .. size |-> IF k <= length THEN pdn_addr[1].value[k] ELSE 0]
    ELSE ZeroPdn.ip_addr

\* The address copied into the fixed buffer, at most its capacity.
StoredAddr(pdn_addr) ==
  IF pdn_addr # NULL /\ pdn_addr[1].length > 0
    THEN LET length == IF pdn_addr[1].length < ESM_DATA_IP_ADDRESS_SIZE
                         THEN pdn_addr[1].length
                         ELSE ESM_DATA_IP_ADDRESS_SIZE
         IN  [k \in 1 .. ESM_DATA_IP_ADDRESS_SIZE |->
                IF k <= length THEN pdn_addr[1].value[k] ELSE 0]
    ELSE ZeroPdn.ip_addr

StoredType(pdn_type, pdn_addr) ==
  IF pdn_addr # NULL /\ pdn_addr[1].length > 0 THEN pdn_type ELSE ZeroPdn.type

\* The record that is never marked as an emergency connection.
NewPdnPlain(pti, apn, pdn_type, pdn_addr, is_emergency, apn_ok) ==
  [pti |-> pti, is_emergency |-> FALSE,
   apn |-> StoredApn(apn, apn_ok),
   ip_addr |-> StoredAddr(pdn_addr),
   type |-> StoredType(pdn_type, pdn_addr)]

\* The record the new entry points to.
NewPdn(pti, apn, pdn_type, pdn_addr, is_emergency, apn_ok) ==
  [pti |-> pti, is_emergency |-> is_emergency,
   apn |-> StoredApn(apn, apn_ok),
   ip_addr |-> StoredAddr(pdn_addr),
   type |-> StoredType(pdn_type, pdn_addr)]

\* The entry written at pid.
NewEntry(pid, rec) == [pid |-> pid, is_active |-> FALSE, data |-> <<rec>>]

\* Whether the call creates an entry: a free one was found and the record
\* could be allocated.
Creates(t, rec_ok) == FirstFree(t) < ESM_DATA_PDN_MAX /\ rec_ok

\* The table after the call.
CreateTable(t, rec, rec_ok) ==
  IF Creates(t, rec_ok)
    THEN [t EXCEPT ![FirstFree(t)] = NewEntry(FirstFree(t), rec)]
    ELSE t

\* The counter incremented before the allocation is tested.
CreateCountEarly(n, t, rec_ok) ==
  IF FirstFree(t) < ESM_DATA_PDN_MAX THEN n + 1 ELSE n

\* The counter after the call.
CreateCount(n, t, rec_ok) == IF Creates(t, rec_ok) THEN n + 1 ELSE n

\* What the call returns: the pid stored in the new entry, or -1.
CreateReturn(t, rec, rec_ok) ==
  IF Creates(t, rec_ok) THEN CreateTable(t, rec, rec_ok)[FirstFree(t)].pid ELSE -1

(***************************************************************************)
(* esm_proc_pdn_connectivity_request                                        *)
(***************************************************************************)

\* What the entry point returns for the pid the create returned.
RequestRc(pid) == IF pid < 0 THEN RETURNerror ELSE pid

\* The cause it leaves in *esm_cause.
RequestCause(pid) ==
  IF pid < 0 THEN ESM_CAUSE_INSUFFICIENT_RESOURCES ELSE ESM_CAUSE_SUCCESS

\* The blocks a create allocates: the record, and the buffer of the name.
CreateAllocs(t, rec, rec_ok) ==
  IF Creates(t, rec_ok) THEN (IF rec.apn.value # NULL THEN 2 ELSE 1) ELSE 0

\* Whether the allocation of the record was asked for and returned null.
CreateNoMem(t, rec_ok) == FirstFree(t) < ESM_DATA_PDN_MAX /\ ~rec_ok

\* What the first statement of _pdn_connectivity_create, the LOG_INFO that
\* evaluates apn->value without testing apn, can do: with a null apn the
\* read is undefined, and the call goes on (TRUE) or the process ends in it
\* (FALSE).
LogOutcomes(apn) == IF apn = NULL THEN BOOLEAN ELSE {TRUE}

Request(pti, request_type, apn, pdn_type, pdn_addr, rec_ok, apn_ok, log_ok) ==
  LET is_emergency == (request_type = ESM_PDN_REQUEST_EMERGENCY)
      rec == NewPdn(pti, apn, pdn_type, pdn_addr, is_emergency, apn_ok)
      pid == CreateReturn(pdn, rec, rec_ok)
      second == last.op = "failure" /\ last.seq = 1
  IN  /\ ~corrupt
      /\ log_ok \in LogOutcomes(apn)
      /\ IF log_ok
           THEN /\ pdn' = CreateTable(pdn, rec, rec_ok)
                /\ n_pdns' = CreateCount(n_pdns, pdn, rec_ok)
                /\ heap' = heap + CreateAllocs(pdn, rec, rec_ok)
                /\ corrupt' = corrupt
                /\ last' = [NoCall EXCEPT
                             !.op = "request", !.arg = pti, !.inner = pid,
                             !.rc = RequestRc(pid), !.cause = RequestCause(pid),
                             !.nomem = CreateNoMem(pdn, rec_ok),
                             !.seq = IF second THEN 2 ELSE 0,
                             !.ref = IF second THEN last.ref ELSE 0,
                             !.rtype = request_type, !.apn = apn,
                             !.addr = pdn_addr, !.ptype = pdn_type]
                /\ hist' = [hist EXCEPT !.created =
                              IF hist.nodel /\ Creates(pdn, rec_ok)
                                THEN @ + 1 ELSE @]
           ELSE /\ corrupt' = TRUE
                /\ last' = [NoCall EXCEPT
                             !.op = "request", !.arg = pti, !.oob = TRUE,
                             !.rtype = request_type, !.apn = apn,
                             !.addr = pdn_addr, !.ptype = pdn_type,
                             !.returned = FALSE]
                /\ UNCHANGED <<pdn, n_pdns, heap, hist>>
      /\ UNCHANGED ie

(***************************************************************************)
(* _pdn_connectivity_delete                                                 *)
(***************************************************************************)

\* What the memory before the array may hold where pdn[pid] is read with a
\* negative pid: any identifier, either flag, a null pointer or a pointer to
\* a record of any pti. No such memory is read with any other pid.
WildSet(pid) ==
  IF pid < 0
    THEN [pid : {pid, 0}, is_active : BOOLEAN,
          data : {NULL} \cup {<<[ZeroPdn EXCEPT !.pti = p]>> : p \in PtiSet}]
    ELSE {[pid |-> 0, is_active |-> FALSE, data |-> NULL]}

\* The entry the call reads at pid. The only test made on pid is
\* pid < ESM_DATA_PDN_MAX, so a negative pid reads outside the array.
ReadEntry(t, pid, wild) == IF pid \in DOMAIN t THEN t[pid] ELSE wild

\* The checks without the test of is_active.
DeletePtiNoActive(t, pid, wild) ==
  IF pid < ESM_DATA_PDN_MAX
    THEN LET e == IF pid \in DOMAIN t THEN t[pid] ELSE wild
         IN  IF pid # e.pid THEN ESM_PT_UNASSIGNED
             ELSE IF e.data = NULL THEN ESM_PT_UNASSIGNED
             ELSE e.data[1].pti
    ELSE ESM_PT_UNASSIGNED

\* The pti the checks leave: that of the record when the identifier matches,
\* the entry is allocated and not active; ESM_PT_UNASSIGNED otherwise.
DeletePti(t, pid, wild) ==
  IF pid < ESM_DATA_PDN_MAX
    THEN LET e == ReadEntry(t, pid, wild)
         IN  IF pid # e.pid THEN ESM_PT_UNASSIGNED
             ELSE IF e.data = NULL THEN ESM_PT_UNASSIGNED
             ELSE IF e.is_active THEN ESM_PT_UNASSIGNED
             ELSE e.data[1].pti
    ELSE ESM_PT_UNASSIGNED

\* Whether the call releases the entry.
Releases(t, pid, wild) == DeletePti(t, pid, wild) # ESM_PT_UNASSIGNED

\* The release that leaves the pointer to the freed record in the entry.
ReleasedKeepData(e) == [e EXCEPT !.pid = -1]

\* The entry after its release.
Released(e) == [e EXCEPT !.pid = -1, !.data = NULL]

\* The release that also releases every entry after the one asked for.
DeleteTableTail(t, pid, wild) ==
  IF Releases(t, pid, wild) /\ pid \in DOMAIN t
    THEN [i \in DOMAIN t |-> IF i >= pid THEN Released(t[i]) ELSE t[i]]
    ELSE t

\* The table after the call.
DeleteTable(t, pid, wild) ==
  IF Releases(t, pid, wild) /\ pid \in DOMAIN t
    THEN [t EXCEPT ![pid] = Released(@)]
    ELSE t

\* The counter after the call.
DeleteCount(n, t, pid, wild) == IF Releases(t, pid, wild) THEN n - 1 ELSE n

\* The release that frees the record and leaves the buffer of the name.
DeleteFreesRecordOnly(t, pid, wild) == IF Releases(t, pid, wild) THEN 1 ELSE 0

\* The blocks the call frees: the buffer of the name when its length is
\* positive, and the record.
DeleteFrees(t, pid, wild) ==
  IF Releases(t, pid, wild)
    THEN (IF ReadEntry(t, pid, wild).data[1].apn.length > 0 THEN 2 ELSE 1)
    ELSE 0

\* Whether the call read pdn[] outside the array.
DeleteReadsOutside(t, pid) == pid < ESM_DATA_PDN_MAX /\ pid \notin DOMAIN t

\* Whether the call wrote and freed through an entry outside the array.
DeleteWritesOutside(t, pid, wild) == Releases(t, pid, wild) /\ pid \notin DOMAIN t

(***************************************************************************)
(* esm_proc_pdn_connectivity_failure                                        *)
(***************************************************************************)

\* What the entry point returns for the pti the delete returned.
FailureRc(pti) == IF pti # ESM_PT_UNASSIGNED THEN RETURNok ELSE RETURNerror

Failure(pid, wild) ==
  LET pti == DeletePti(pdn, pid, wild)
      rc == FailureRc(pti)
      afterRequest == /\ last.op = "request" /\ last.inner >= 0
                      /\ last.rc = pid /\ rc = RETURNok
      afterFailure == /\ last.op = "failure" /\ last.rc = RETURNok
                      /\ last.arg = pid
  IN  /\ ~corrupt
      /\ pdn' = DeleteTable(pdn, pid, wild)
      /\ n_pdns' = DeleteCount(n_pdns, pdn, pid, wild)
      /\ heap' = IF pid \in DOMAIN pdn THEN heap - DeleteFrees(pdn, pid, wild) ELSE heap
      /\ corrupt' = DeleteWritesOutside(pdn, pid, wild)
      /\ last' = [NoCall EXCEPT
                   !.op = "failure", !.arg = pid, !.inner = pti, !.rc = rc,
                   !.nfree = DeleteFrees(pdn, pid, wild),
                   !.oob = DeleteReadsOutside(pdn, pid),
                   !.seq = IF afterRequest THEN 1 ELSE IF afterFailure THEN 3 ELSE 0,
                   !.ref = IF afterRequest \/ afterFailure THEN pid ELSE 0]
      /\ hist' = [nodel |-> FALSE, created |-> 0]
      /\ UNCHANGED ie

(***************************************************************************)
(* esm_proc_pdn_connectivity_reject                                         *)
(***************************************************************************)

EMMESM_UNITDATA_REQ == "EMMESM_UNITDATA_REQ"

\* The UE contexts a reject is called for.
CtxSet == {"ctx1", "ctx2"}

\* The encoded reject messages a reject is called with.
MsgSet == {OctetString(<<OtherByte, SomeByte>>)}

\* What emm_sap_send returns (emm_sap.c, outside this file).
SendRcSet == {RETURNok, RETURNerror}

\* The primitive the call builds: the zeroed emm_sap_t with its primitive,
\* the context, and the length and bytes of the message.
RejectSap(ctx, msg) ==
  [primitive |-> EMMESM_UNITDATA_REQ, ctx |-> ctx,
   length |-> msg[1].length, value |-> msg[1].value]

\* The primitive sent whatever is_standalone is.
RejectSentAlways(is_standalone, ctx, msg) == <<RejectSap(ctx, msg)>>

\* The primitives handed to emm_sap_send: one when is_standalone, else none.
RejectSent(is_standalone, ctx, msg) ==
  IF is_standalone THEN <<RejectSap(ctx, msg)>> ELSE <<>>

\* What the call returns: the result of emm_sap_send, or the RETURNerror rc
\* starts with.
RejectRc(is_standalone, send_rc) == IF is_standalone THEN send_rc ELSE RETURNerror

Reject(is_standalone, ctx, msg, send_rc) ==
  /\ ~corrupt
  /\ last' = [NoCall EXCEPT
               !.op = "reject", !.arg = ctx, !.flag = is_standalone,
               !.msg = msg,
               !.inner = IF is_standalone THEN send_rc ELSE RETURNerror,
               !.rc = RejectRc(is_standalone, send_rc),
               !.sent = RejectSent(is_standalone, ctx, msg)]
  /\ UNCHANGED <<n_pdns, pdn, heap, corrupt, hist, ie>>

(***************************************************************************)
(* The bearer activation logic outside this file, which sets and clears     *)
(* is_active of an established connection.                                  *)
(***************************************************************************)
Activate(i) ==
  /\ ~corrupt
  /\ pdn[i].data # NULL
  /\ ~pdn[i].is_active
  /\ pdn' = [pdn EXCEPT ![i].is_active = TRUE]
  /\ last' = [NoCall EXCEPT !.op = "activate", !.arg = i]
  /\ UNCHANGED <<n_pdns, heap, corrupt, hist, ie>>

Deactivate(i) ==
  /\ ~corrupt
  /\ pdn[i].data # NULL
  /\ pdn[i].is_active
  /\ pdn' = [pdn EXCEPT ![i].is_active = FALSE]
  /\ last' = [NoCall EXCEPT !.op = "deactivate", !.arg = i]
  /\ UNCHANGED <<n_pdns, heap, corrupt, hist, ie>>

(***************************************************************************)
(* The context of a UE before its first request: no connection, every       *)
(* entry free. The entries hold zero (a cleared context) or the identifier  *)
(* of a free entry.                                                         *)
(***************************************************************************)
\* No information element is being decoded.
NoIE == [st |-> "idle"]

Init ==
  /\ n_pdns = 0
  /\ \E v \in {0, -1} :
       pdn = [i \in Slots |-> [pid |-> v, is_active |-> FALSE, data |-> NULL]]
  /\ heap = 0
  /\ corrupt = FALSE
  /\ last = NoCall
  /\ hist = [nodel |-> TRUE, created |-> 0]
  /\ ie = NoIE

RequestStep ==
  \E pti \in PtiSet, apn \in ApnSet, pdn_addr \in AddrSet, rec_ok \in BOOLEAN,
     apn_ok \in BOOLEAN :
    Request(pti, ESM_PDN_REQUEST_INITIAL, apn, ESM_PDN_TYPE_IPV4, pdn_addr,
            rec_ok, apn_ok, TRUE)

FailureStep(pids) == \E pid \in pids : \E wild \in WildSet(pid) : Failure(pid, wild)

RejectStep ==
  \E is_standalone \in BOOLEAN, ctx \in CtxSet, msg \in MsgSet,
     send_rc \in SendRcSet :
    Reject(is_standalone, ctx, msg, send_rc)

ExternalStep == \E i \in Slots : Activate(i) \/ Deactivate(i)

Next == RequestStep \/ FailureStep(PidSet) \/ RejectStep \/ ExternalStep

\* Every call the interface allows.
Spec == Init /\ [][Next]_vars

NextInRange ==
  RequestStep \/ FailureStep(PidSetInRange) \/ RejectStep \/ ExternalStep

\* The request types of the requests whose stored record is examined.
ReqTypeSet == {ESM_PDN_REQUEST_INITIAL, ESM_PDN_REQUEST_EMERGENCY}

RequestStepData ==
  \E pti \in PtiSet, request_type \in ReqTypeSet, rec_ok \in BOOLEAN :
    Request(pti, request_type, OctetString(<<>>), ESM_PDN_TYPE_IPV4,
            OctetString(<<>>), rec_ok, TRUE, TRUE)

NextData == RequestStepData \/ FailureStep(PidSetInRange)

\* Requests of either type and either pti, with an empty name, and the
\* failure trigger with a pid that is not negative; no activation.
SpecData == Init /\ [][NextData]_vars

\* The access point names of the requests whose stored name is examined: no
\* name, an empty name, a name of one byte and a name of two.
ApnSetData ==
  {NULL, OctetString(<<>>), OctetString(<<SomeByte>>),
   OctetString(<<OtherByte, SomeByte>>)}

RequestStepApn ==
  \E apn \in ApnSetData, rec_ok \in BOOLEAN, apn_ok \in BOOLEAN,
     log_ok \in BOOLEAN :
    Request(SomePti, ESM_PDN_REQUEST_INITIAL, apn, ESM_PDN_TYPE_IPV4,
            OctetString(<<>>), rec_ok, apn_ok, log_ok)

NextApn == RequestStepApn \/ FailureStep(PidSetInRange)

\* Requests with every kind of name, where either allocation may fail, and
\* the failure trigger with a pid that is not negative; no activation.
SpecApn == Init /\ [][NextApn]_vars

\* The failure trigger is called for pid i.
FailureOn(i) == \E wild \in WildSet(i) : Failure(i, wild)

\* The failure trigger is eventually called for every entry that stays
\* occupied.
DrainFairness == \A i \in Slots : WF_vars(pdn[i].data # NULL /\ FailureOn(i))

\* The calls of SpecData, where no occupied entry is left without a failure
\* call for ever.
SpecDrain == Init /\ [][NextData]_vars /\ DrainFairness

\* An address of n bytes, the first of which is first + 1.
AddrOf(n, first) == OctetString([k \in 1 .. n |-> first + k])

\* The addresses of the requests whose stored address is examined: none, an
\* empty one, one shorter than the buffer, one that fills it and one longer.
AddrSetData ==
  {NULL, OctetString(<<>>), AddrOf(ESM_DATA_IP_ADDRESS_SIZE - 2, 10),
   AddrOf(ESM_DATA_IP_ADDRESS_SIZE, 20), AddrOf(ESM_DATA_IP_ADDRESS_SIZE + 2, 30)}

PdnTypeSet == {ESM_PDN_TYPE_IPV4, ESM_PDN_TYPE_IPV6}

RequestStepAddr ==
  \E pdn_type \in PdnTypeSet, pdn_addr \in AddrSetData, rec_ok \in BOOLEAN :
    Request(SomePti, ESM_PDN_REQUEST_INITIAL, OctetString(<<>>), pdn_type,
            pdn_addr, rec_ok, TRUE, TRUE)

NextAddr == RequestStepAddr \/ FailureStep(PidSetInRange)

\* Requests with every kind of address and either PDN type, and the failure
\* trigger with a pid that is not negative; no activation.
SpecAddr == Init /\ [][NextAddr]_vars

\* The calls whose pid is not negative, so that no call reads outside pdn[].
SpecInRange == Init /\ [][NextInRange]_vars

(***************************************************************************)
(* The decoders of the Sm information elements (src/sm/sm_ie_formatter.c).  *)
(* A call is given ieLength and ieValue, the ieLength bytes of the element, *)
(* and the output record arg; ie holds the call: where it stands (st), the  *)
(* decoder, the element, the output record, the byte order of the host, the *)
(* offset ieValue was advanced by, the local decoded, the iterations made   *)
(* and the offsets read.                                                    *)
(***************************************************************************)

NW_OK == "NW_OK"

NW_FAILURE == "NW_FAILURE"

NW_GTPV2C_IE_INCORRECT == "NW_GTPV2C_IE_INCORRECT"

\* Bytes of the service identity in a TMGI (3gpp_23.003.h).
MBMS_SERVICE_ID_DIGITS == 3

\* x & m on naturals.
RECURSIVE BitAnd(_, _)
BitAnd(x, m) ==
  IF x = 0 \/ m = 0
    THEN 0
    ELSE (x % 2) * (m % 2) + 2 * BitAnd(x \div 2, m \div 2)

\* A 32-bit value is written in base 256, as its four digits with the most
\* significant first; BE32 is the value (b[1] << 24) | (b[2] << 16) |
\* (b[3] << 8) | b[4].
BE32(b) == <<b[1], b[2], b[3], b[4]>>

\* The four bytes of a 32-bit value, most significant first.
Bytes32(x) == x

\* ntoh_int32_buf (conversions.h): the 32-bit value of four bytes in network
\* byte order.
NtohInt32Buf(b) == BE32(b)

Reverse4(b) == <<b[4], b[3], b[2], b[1]>>

\* (x << 8) + b in 32 bits, for a byte b.
ShiftIn(x, b) == <<x[2], x[3], x[4], b>>

\* The byte orders of the hosts the code is built for.
EndianSet == {"little", "big"}

\* htonl: the value whose bytes in memory are those of x, most significant
\* first.
Htonl(x, endian) ==
  IF endian = "big" THEN x ELSE BE32(Reverse4(Bytes32(x)))

\* The bytes a 32-bit value occupies in memory, lowest address first.
Mem32(x, endian) ==
  IF endian = "big" THEN Bytes32(x) ELSE Reverse4(Bytes32(x))

\* *(uint16_t *) p for the two bytes at p.
Load16(b0, b1, endian) == IF endian = "big" THEN b0 * 256 + b1 ELSE b1 * 256 + b0

\* The two bytes a 16-bit value occupies in memory, lowest address first.
Mem16(x, endian) ==
  IF endian = "big" THEN <<x \div 256, x % 256>> ELSE <<x % 256, x \div 256>>

\* ieValue[k]: a byte of the element, or, past its ieLength bytes, whatever
\* follows it in memory.
Byte(v, k, wild) == IF k < Len(v) THEN v[k + 1] ELSE wild

\* The bytes ieValue[from] .. ieValue[from + n - 1].
BytesAt(v, from, n, wild) == [k \in 1 .. n |-> Byte(v, from + k - 1, wild)]

\* What the memory after an element holds.
WildBytes == {0, 255}

\* The result of a decoder: what it returns, the output record it leaves, the
\* offsets of ieValue it read and the offset it advanced ieValue to.
Result(rc, out, reads, off) == [rc |-> rc, out |-> out, reads |-> reads, off |-> off]

\* sm_mbms_session_duration_ie_get.
SessionDurationGet(len, v, prior, wild, endian) ==
  Result(NW_OK,
         [seconds |-> Byte(v, 0, wild) * 131072 + Byte(v, 1, wild) * 512
                        + BitAnd(Byte(v, 2, wild), 128),
          days |-> BitAnd(Byte(v, 3, wild), 127)],
         0 .. 3, 3)

\* sm_mbms_flow_identifier_ie_get.
FlowIdentifierGet(len, v, prior, wild, endian) ==
  Result(NW_OK,
         [flow_id |-> Load16(Byte(v, 0, wild), Byte(v, 1, wild), endian)],
         0 .. 1, 2)

\* sm_mbms_data_transfer_start_ie_get.
DataTransferStartGet(len, v, prior, wild, endian) ==
  Result(NW_OK, [abs_time |-> BytesAt(v, 0, 8, wild)], 0 .. 7, 8)

\* The value a flag of mbms_flags_t holds after the assignment of x.
AsFlag(x) == x # 0

\* The decoder that takes lmri from bit 0 and msri from bit 1.
FlagsGetSwapped(len, v, prior, wild, endian) ==
  IF len # 1
    THEN Result(NW_GTPV2C_IE_INCORRECT, prior, {}, 0)
    ELSE Result(NW_OK,
                [msri |-> AsFlag(BitAnd(Byte(v, 0, wild), 2)),
                 lmri |-> AsFlag(BitAnd(Byte(v, 0, wild), 1))],
                {0}, 0)

\* sm_mbms_flags_ie_get.
FlagsGet(len, v, prior, wild, endian) ==
  IF len # 1
    THEN Result(NW_GTPV2C_IE_INCORRECT, prior, {}, 0)
    ELSE Result(NW_OK,
                [msri |-> AsFlag(BitAnd(Byte(v, 0, wild), 1)),
                 lmri |-> AsFlag(BitAnd(Byte(v, 0, wild), 2))],
                {0}, 0)

\* One tagged address accepted whatever its family is, as an IPv4 one.
AddrGetAnyFamily(v, off, type, length, mem, wild, endian) ==
  [rc |-> NW_OK,
   mem |-> Mem32(Htonl(BE32(BytesAt(v, off, 4, wild)), endian), endian)
             \o SubSeq(mem, 5, 16),
   reads |-> off .. off + 3, off |-> off + 4]

\* The address part of a tagged address, for the type and length its
\* descriptor gave, read at offset off into the 16 bytes mem of the union of
\* an in_addr and an in6_addr: the four bytes of an IPv4 address through
\* hbo and htonl, the 16 bytes of an IPv6 address copied; NW_FAILURE for an
\* IPv6 length other than 16 and for every other type.
AddrGet(v, off, type, length, mem, wild, endian) ==
  IF type = 0
    THEN [rc |-> NW_OK,
          mem |-> Mem32(Htonl(BE32(BytesAt(v, off, 4, wild)), endian), endian)
                    \o SubSeq(mem, 5, 16),
          reads |-> off .. off + 3, off |-> off + 4]
  ELSE IF type = 1
    THEN IF length # 16
           THEN [rc |-> NW_FAILURE, mem |-> mem, reads |-> {}, off |-> off]
           ELSE [rc |-> NW_OK, mem |-> BytesAt(v, off, 16, wild),
                 reads |-> off .. off + 15, off |-> off + 16]
  ELSE [rc |-> NW_FAILURE, mem |-> mem, reads |-> {}, off |-> off]

\* mbms_ip_multicast_distribution_t with every byte zero.
ZeroIpMc ==
  [cteid |-> <<0, 0, 0, 0>>, da_type |-> 0,
   distribution_address |-> [k \in 1 .. 16 |-> 0],
   sa_type |-> 0,
   source_address |-> [k \in 1 .. 16 |-> 0],
   hc_indication |-> 0]

\* sm_mbms_ip_multicast_distribution_ie_get from the distribution address
\* on, with ieValue at offset at, the record o and the offsets rd read so far:
\* the descriptor and the address of the distribution address, those of the
\* source address, then the byte of hc_indication.
IpMulticastFrom(v, at, o, rd, wild, endian) ==
  LET da_type == BitAnd(Byte(v, at, wild), 192) \div 64
      da_length == BitAnd(Byte(v, at, wild), 63)
      da == AddrGet(v, at + 1, da_type, da_length, o.distribution_address,
                    wild, endian)
      o1 == [o EXCEPT !.da_type = da_type, !.distribution_address = da.mem]
      rd1 == rd \cup {at} \cup da.reads
      sa_type == BitAnd(Byte(v, da.off, wild), 192) \div 64
      sa_length == BitAnd(Byte(v, da.off, wild), 63)
      sa == AddrGet(v, da.off + 1, sa_type, sa_length, o.source_address,
                    wild, endian)
      o2 == [o1 EXCEPT !.sa_type = sa_type, !.source_address = sa.mem]
      rd2 == rd1 \cup {da.off} \cup sa.reads
  IN  IF da.rc # NW_OK THEN Result(NW_FAILURE, o1, rd1, da.off)
      ELSE IF sa.rc # NW_OK THEN Result(NW_FAILURE, o2, rd2, sa.off)
      ELSE Result(NW_OK, [o2 EXCEPT !.hc_indication = Byte(v, sa.off, wild)],
                  rd2 \cup {sa.off}, sa.off + 1)

\* The decoder that takes the distribution address from the first byte of
\* the element.
IpMulticastGetNoCteid(len, v, prior, wild, endian) ==
  IpMulticastFrom(v, 0, prior, {}, wild, endian)

\* sm_mbms_ip_multicast_distribution_ie_get: the CTEID of the first four
\* bytes through ntoh_int32_buf, then the two tagged addresses and the flag.
IpMulticastGet(len, v, prior, wild, endian) ==
  IpMulticastFrom(v, 4,
                  [prior EXCEPT !.cteid = NtohInt32Buf(BytesAt(v, 0, 4, wild))],
                  0 .. 3, wild, endian)

\* How many iterations of a loop of a decoder are followed.
MaxIter == MBMS_SERVICE_ID_DIGITS + 2

\* Capacity of mbms_service_area_t.serviceArea.
MaxServiceArea == 2

\* tmgi_t and mbms_service_area_t with every byte zero.
ZeroTmgi ==
  [serviceId |-> <<0, 0, 0, 0>>,
   plmn |-> [mcc_digit1 |-> 0, mcc_digit2 |-> 0, mcc_digit3 |-> 0,
             mnc_digit1 |-> 0, mnc_digit2 |-> 0, mnc_digit3 |-> 0]]

ZeroServiceArea ==
  [num_service_area |-> 0, serviceArea |-> [k \in 0 .. (MaxServiceArea - 1) |-> 0]]

\* A call of decoder dec with the element v and the output record prior.
IECall(dec, v, prior, endian) ==
  [st |-> "call", dec |-> dec, endian |-> endian, len |-> Len(v), val |-> v,
   prior |-> prior, out |-> prior, rc |-> "none", off |-> 0, decoded |-> 0,
   iter |-> 0, reads |-> {}]

\* The call after the decoder returned r.
Returned(c, r) ==
  [c EXCEPT !.st = "done", !.rc = r.rc, !.out = r.out, !.off = r.off,
            !.reads = r.reads]

TableVars == <<n_pdns, pdn, heap, corrupt, last, hist>>

\* sm_tmgi_ie_get up to its loop: DevAssert (ieLength <=
\* MBMS_SERVICE_ID_DIGITS) ends the process when it does not hold.
TmgiGet ==
  /\ ie.st = "call" /\ ie.dec = "sm_tmgi_ie_get"
  /\ ie' = [ie EXCEPT !.st = IF ie.len <= MBMS_SERVICE_ID_DIGITS
                                THEN "loop" ELSE "abort"]
  /\ UNCHANGED TableVars

\* One test of the loop of sm_tmgi_ie_get, with its body when the test holds
\* and the rest of the function when it does not. The body reads
\* ieValue[decoded], accumulates it in serviceId and advances ieValue; it
\* leaves decoded as it is.
TmgiLoop ==
  /\ ie.st = "loop" /\ ie.dec = "sm_tmgi_ie_get"
  /\ \E wild \in WildBytes :
       IF ie.decoded < MBMS_SERVICE_ID_DIGITS
         THEN /\ ie.iter < MaxIter
              /\ ie' = [ie EXCEPT
                          !.out.serviceId =
                            ShiftIn(@, Byte(ie.val, ie.off + ie.decoded, wild)),
                          !.reads = @ \cup {ie.off + ie.decoded},
                          !.off = @ + 1,
                          !.iter = @ + 1]
         ELSE LET b0 == Byte(ie.val, ie.off, wild)
                  b1 == Byte(ie.val, ie.off + 1, wild)
                  b2 == Byte(ie.val, ie.off + 2, wild)
              IN  ie' = Returned(ie,
                          Result(NW_OK,
                            [ie.out EXCEPT
                               !.plmn = [mcc_digit2 |-> BitAnd(b0, 240) \div 16,
                                         mcc_digit1 |-> BitAnd(b0, 15),
                                         mnc_digit3 |-> BitAnd(b1, 240) \div 16,
                                         mcc_digit3 |-> BitAnd(b1, 15),
                                         mnc_digit2 |-> BitAnd(b2, 240) \div 16,
                                         mnc_digit1 |-> BitAnd(b2, 15)]],
                            ie.reads \cup (ie.off .. ie.off + 2), ie.off + 3))
  /\ UNCHANGED TableVars

\* sm_mbms_service_area_ie_get up to its loop: the count byte.
ServiceAreaGet ==
  /\ ie.st = "call" /\ ie.dec = "sm_mbms_service_area_ie_get"
  /\ \E wild \in WildBytes :
       ie' = [ie EXCEPT !.st = "loop",
                        !.out.num_service_area = Byte(ie.val, 0, wild),
                        !.reads = {0}, !.off = 1, !.decoded = 0]
  /\ UNCHANGED TableVars

\* One test of the loop of sm_mbms_service_area_ie_get, with its body when
\* the test holds and the return when it does not. The body stores the 16
\* bits at ieValue in serviceArea[decoded] and advances ieValue by two; it
\* leaves decoded as it is.
ServiceAreaLoop ==
  /\ ie.st = "loop" /\ ie.dec = "sm_mbms_service_area_ie_get"
  /\ \E wild \in WildBytes :
       IF ie.decoded < ie.out.num_service_area
         THEN /\ ie.iter < MaxIter
              /\ ie' = [ie EXCEPT
                          !.out.serviceArea[ie.decoded] =
                            Load16(Byte(ie.val, ie.off, wild),
                                   Byte(ie.val, ie.off + 1, wild), ie.endian),
                          !.reads = @ \cup {ie.off, ie.off + 1},
                          !.off = @ + 2,
                          !.iter = @ + 1]
         ELSE ie' = Returned(ie, Result(NW_OK, ie.out, ie.reads, ie.off))
  /\ UNCHANGED TableVars

SessionDurationStep ==
  /\ ie.st = "call" /\ ie.dec = "sm_mbms_session_duration_ie_get"
  /\ \E wild \in WildBytes :
       ie' = Returned(ie, SessionDurationGet(ie.len, ie.val, ie.out, wild, ie.endian))
  /\ UNCHANGED TableVars

FlowIdentifierStep ==
  /\ ie.st = "call" /\ ie.dec = "sm_mbms_flow_identifier_ie_get"
  /\ \E wild \in WildBytes :
       ie' = Returned(ie, FlowIdentifierGet(ie.len, ie.val, ie.out, wild, ie.endian))
  /\ UNCHANGED TableVars

IpMulticastStep ==
  /\ ie.st = "call" /\ ie.dec = "sm_mbms_ip_multicast_distribution_ie_get"
  /\ \E wild \in WildBytes :
       ie' = Returned(ie, IpMulticastGet(ie.len, ie.val, ie.out, wild, ie.endian))
  /\ UNCHANGED TableVars

DataTransferStartStep ==
  /\ ie.st = "call" /\ ie.dec = "sm_mbms_data_transfer_start_ie_get"
  /\ \E wild \in WildBytes :
       ie' = Returned(ie, DataTransferStartGet(ie.len, ie.val, ie.out, wild, ie.endian))
  /\ UNCHANGED TableVars

FlagsStep ==
  /\ ie.st = "call" /\ ie.dec = "sm_mbms_flags_ie_get"
  /\ \E wild \in WildBytes :
       ie' = Returned(ie, FlagsGet(ie.len, ie.val, ie.out, wild, ie.endian))
  /\ UNCHANGED TableVars

(***************************************************************************)
(* The elements the decoders are called with.                               *)
(***************************************************************************)

\* Every prefix of an element: the element cut short at each length.
Prefixes(v) == {SubSeq(v, 1, k) : k \in 0 .. Len(v)}

\* The values of a byte of an IPv4 address.
AddrBytes == {0, 2, 192, 255}

\* Every IPv4 address over those bytes.
V4Set == {<<a, b, c, d>> : a \in AddrBytes, b \in AddrBytes,
                           c \in AddrBytes, d \in AddrBytes}

\* 192.0.2.1 and 255.2.0.192.
V4Few == {<<192, 0, 2, 1>>, <<255, 2, 0, 192>>}

\* The all-zeros IPv6 address and 2001:db8::1.
V6Set ==
  {[k \in 1 .. 16 |-> 0],
   <<32, 1, 13, 184, 0, 0, 0, 0, 0, 0, 0, 0, 0, 0, 0, 1>>}

\* Tagged addresses: IPv4 with the length field 0 and 4, IPv6 with the
\* length field 16, 4 and 0, and the families 2 and 3.
TaggedSet ==
  {<<0>> \o a : a \in V4Few} \cup {<<4>> \o a : a \in V4Few}
    \cup {<<80>> \o a : a \in V6Set}
    \cup {<<68, 192, 0, 2, 1>>, <<64>> \o [k \in 1 .. 16 |-> 0]}
    \cup {<<128, 192, 0, 2, 1>>, <<144>> \o [k \in 1 .. 16 |-> 0],
          <<192, 192, 0, 2, 1>>, <<208>> \o [k \in 1 .. 16 |-> 0]}

\* The byte after the source address.
HcSet == {<<0>>, <<1>>, <<2>>, <<3>>}

SomeCteid == <<0, 0, 1, 2>>

\* Elements of the IP multicast distribution: a CTEID, two tagged addresses
\* and the flag byte, for every pair of tagged addresses and for every IPv4
\* distribution address; the same elements without the CTEID; and some cut
\* short.
IpMulticastValues ==
  LET full == {SomeCteid \o da \o sa \o hc :
                 da \in TaggedSet, sa \in TaggedSet, hc \in HcSet}
      every == {SomeCteid \o <<0>> \o a \o <<0, 192, 0, 2, 1, 1>> : a \in V4Set}
      bare == {da \o sa \o <<1>> : da \in {<<0>> \o a : a \in V4Few},
                                    sa \in {<<0>> \o a : a \in V4Few}}
      short == UNION {Prefixes(SomeCteid \o <<0>> \o a \o <<80>> \o b \o <<1>>) :
                        a \in V4Few, b \in V6Set}
  IN  full \cup every \cup bare \cup short

\* Elements of the bearer flags: every byte, no byte, and two bytes.
FlagsValues == {<<b>> : b \in 0 .. 255} \cup {<<>>, <<1, 0>>, <<3, 3>>}

\* Elements of a TMGI: service identity 00 01 02 with the PLMN 208 93, and
\* another, each cut short at every length.
TmgiValues ==
  Prefixes(<<0, 1, 2, 2, 248, 57>>) \cup Prefixes(<<255, 16, 3, 33, 67, 101>>)

\* Elements of a session duration, a flow identifier and a start time, each
\* cut short at every length.
SessionDurationValues == Prefixes(<<1, 2, 128, 7>>) \cup Prefixes(<<255, 255, 255, 255>>)

FlowIdentifierValues == Prefixes(<<1, 2>>) \cup Prefixes(<<255, 0>>)

DataTransferStartValues ==
  Prefixes(<<1, 2, 3, 4, 5, 6, 7, 8>>) \cup Prefixes([k \in 1 .. 8 |-> 255])

\* Elements of a service area: the counts 0, 1 and 2 with that many codes,
\* with fewer, and cut short.
ServiceAreaValues ==
  Prefixes(<<0>>) \cup Prefixes(<<1, 1, 2>>) \cup Prefixes(<<2, 1, 2, 3, 4>>)

\* The output records a decoder of bearer flags is given.
FlagsPriors == {[msri |-> FALSE, lmri |-> FALSE], [msri |-> TRUE, lmri |-> TRUE]}

\* The output records a decoder of a TMGI is given: a zeroed one and one
\* that holds the service identity 7 of an earlier use.
TmgiPriors == {ZeroTmgi, [ZeroTmgi EXCEPT !.serviceId = <<0, 0, 0, 7>>]}

\* The calls made.
IECalls ==
  UNION {{IECall("sm_tmgi_ie_get", v, o, e) : v \in TmgiValues,
                                               e \in EndianSet} :
          o \in TmgiPriors}
  \cup {IECall("sm_mbms_session_duration_ie_get", v, [seconds |-> 0, days |-> 0], e) :
          v \in SessionDurationValues, e \in EndianSet}
  \cup {IECall("sm_mbms_service_area_ie_get", v, ZeroServiceArea, e) :
          v \in ServiceAreaValues, e \in EndianSet}
  \cup {IECall("sm_mbms_flow_identifier_ie_get", v, [flow_id |-> 0], e) :
          v \in FlowIdentifierValues, e \in EndianSet}
  \cup {IECall("sm_mbms_ip_multicast_distribution_ie_get", v, ZeroIpMc, e) :
          v \in IpMulticastValues, e \in EndianSet}
  \cup {IECall("sm_mbms_data_transfer_start_ie_get", v,
                [abs_time |-> [k \in 1 .. 8 |-> 0]], e) :
          v \in DataTransferStartValues, e \in EndianSet}
  \cup UNION {{IECall("sm_mbms_flags_ie_get", v, o, e) : v \in FlagsValues,
                                                         e \in EndianSet} :
               o \in FlagsPriors}

\* A decoder is called; no PDN connection exists.
InitIE ==
  /\ n_pdns = 0
  /\ pdn = [i \in Slots |-> [pid |-> -1, is_active |-> FALSE, data |-> NULL]]
  /\ heap = 0
  /\ corrupt = FALSE
  /\ last = NoCall
  /\ hist = [nodel |-> TRUE, created |-> 0]
  /\ ie \in IECalls

NextIE ==
  \/ TmgiGet \/ TmgiLoop
  \/ SessionDurationStep
  \/ ServiceAreaGet \/ ServiceAreaLoop
  \/ FlowIdentifierStep
  \/ IpMulticastStep
  \/ DataTransferStartStep
  \/ FlagsStep

\* Each call of a decoder, from its entry to its return.
SpecIE == InitIE /\ [][NextIE]_vars

(***************************************************************************)
(* Properties of the table.                                                 *)
(***************************************************************************)

\* The blocks the table owns: a record per occupied entry, and the buffer of
\* its name when it has one.
Owned(t) ==
  Cardinality(Occupied(t)) +
  Cardinality({i \in Occupied(t) : t[i].data[1].apn.value # NULL})

\* The step is a call of esm_proc_pdn_connectivity_request.
IsRequest == last'.op = "request"

\* The step is a call of esm_proc_pdn_connectivity_failure.
IsFailure == last'.op = "failure"

\* The step leaves every entry and the counter as they were.
TableUnchanged == pdn' = pdn /\ n_pdns' = n_pdns

\* C1 (as claimed): after any sequence of create and delete calls, n_pdns is
\* the number of occupied entries and every occupied entry stores its index.
C1_SlotInvariant ==
  /\ n_pdns = Cardinality(Occupied(pdn))
  /\ \A i \in Occupied(pdn) : pdn[i].pid = i

\* C2 (as claimed): from the empty table and with no delete, each of the
\* first ESM_DATA_PDN_MAX creates succeeds, and the create after them
\* returns -1 (RETURNerror, cause insufficient resources) and changes nothing.
C2_Original ==
  [][(IsRequest /\ hist.nodel) =>
       IF hist.created < ESM_DATA_PDN_MAX
         THEN last'.inner >= 0
         ELSE /\ last'.inner = -1
              /\ last'.rc = RETURNerror
              /\ last'.cause = ESM_CAUSE_INSUFFICIENT_RESOURCES
              /\ TableUnchanged]_vars

\* C2 (amended): from the empty table and with no delete, each of the first
\* ESM_DATA_PDN_MAX successful creates takes the next entry, a create among
\* them fails only when its record cannot be allocated, and the create after
\* ESM_DATA_PDN_MAX successful ones returns -1 (RETURNerror, cause
\* insufficient resources) and changes nothing.
C2_Exhaustion ==
  [][(IsRequest /\ hist.nodel) =>
       IF hist.created < ESM_DATA_PDN_MAX
         THEN IF last'.nomem
                THEN last'.inner = -1 /\ hist'.created = hist.created
                ELSE last'.inner = hist.created /\ hist'.created = hist.created + 1
         ELSE /\ last'.inner = -1
              /\ last'.rc = RETURNerror
              /\ last'.cause = ESM_CAUSE_INSUFFICIENT_RESOURCES
              /\ TableUnchanged]_vars

\* The create that follows ESM_DATA_PDN_MAX successful ones has failed.
C2_Witness ==
  /\ hist.nodel /\ hist.created = ESM_DATA_PDN_MAX
  /\ last.op = "request" /\ last.inner = -1 /\ ~last.nomem
  /\ last.cause = ESM_CAUSE_INSUFFICIENT_RESOURCES

\* C3: when an entry is free and the record cannot be allocated, the create
\* returns -1 and leaves the counter and every field of every entry as it was.
C3_AtomicOnAllocFailure ==
  [][(IsRequest /\ FirstFree(pdn) < ESM_DATA_PDN_MAX /\ last'.nomem) =>
       /\ last'.inner = -1
       /\ TableUnchanged]_vars

\* A create has failed for lack of memory in a table with occupied and free
\* entries.
C3_Witness ==
  /\ last.op = "request" /\ last.nomem /\ last.inner = -1
  /\ Occupied(pdn) # {} /\ Occupied(pdn) # Slots

\* C4: a successful create returns the smallest index whose entry was free,
\* occupies that entry and no other, and leaves it not active.
C4_LowestFreeSlot ==
  [][(IsRequest /\ last'.inner >= 0) =>
       LET i == last'.inner
       IN  /\ i \in Slots
           /\ pdn[i].data = NULL
           /\ \A j \in Slots : j < i => pdn[j].data # NULL
           /\ pdn'[i].data # NULL
           /\ pdn'[i].is_active = FALSE
           /\ \A j \in Slots : j # i => pdn'[j] = pdn[j]]_vars

\* A create has taken entry 0 while a higher entry was occupied.
C4_Witness ==
  /\ last.op = "request" /\ last.inner = 0
  /\ \E j \in Slots : j > 0 /\ pdn[j].data # NULL

\* C5: a delete of an occupied entry that is active returns
\* ESM_PT_UNASSIGNED and leaves the entry and the counter as they were.
C5_DeletionGuard ==
  [][(/\ IsFailure
      /\ last'.arg \in Slots
      /\ pdn[last'.arg].data # NULL
      /\ pdn[last'.arg].is_active) =>
       /\ last'.inner = ESM_PT_UNASSIGNED
       /\ TableUnchanged]_vars

\* A delete has been refused on an active entry created with a valid pti.
C5_Witness ==
  /\ last.op = "failure" /\ last.arg \in Slots
  /\ last.inner = ESM_PT_UNASSIGNED
  /\ pdn[last.arg].data # NULL
  /\ pdn[last.arg].is_active
  /\ pdn[last.arg].data[1].pti # ESM_PT_UNASSIGNED

\* C6 (as claimed): a delete with an id outside [0, ESM_DATA_PDN_MAX) returns
\* ESM_PT_UNASSIGNED, reads no entry outside the array and changes nothing.
C6_Original ==
  [][(IsFailure /\ last'.arg \notin Slots) =>
       /\ last'.inner = ESM_PT_UNASSIGNED
       /\ ~last'.oob
       /\ ~corrupt'
       /\ TableUnchanged]_vars

\* C7 (as claimed): a delete of an occupied entry that is not active returns
\* the pti the entry was created with, decrements the counter and leaves the
\* entry free with the identifier -1.
C7_Original ==
  [][(/\ IsFailure
      /\ last'.arg \in Slots
      /\ pdn[last'.arg].data # NULL
      /\ ~pdn[last'.arg].is_active) =>
       /\ pdn[last'.arg].pid = last'.arg
       /\ last'.inner = pdn[last'.arg].data[1].pti
       /\ n_pdns' = n_pdns - 1
       /\ pdn'[last'.arg].data = NULL
       /\ pdn'[last'.arg].pid = -1]_vars

\* C8 (as claimed): the failure trigger returns RETURNok exactly when the
\* entry was occupied and not active, and then the entry is free afterwards.
C8_Original ==
  [][IsFailure =>
       LET releasable == /\ last'.arg \in Slots
                         /\ pdn[last'.arg].data # NULL
                         /\ ~pdn[last'.arg].is_active
       IN  /\ (last'.rc = RETURNok) <=> releasable
           /\ last'.rc # RETURNok => last'.rc = RETURNerror
           /\ releasable => pdn'[last'.arg].data = NULL]_vars

\* C9: a delete that follows a successful delete of the same id returns
\* ESM_PT_UNASSIGNED, frees nothing and changes nothing; and the blocks
\* allocated and not yet freed are those the occupied entries own, so that no
\* record is freed twice.
C9_NoDoubleDelete ==
  /\ [][(/\ last.op = "failure" /\ last.rc = RETURNok
         /\ IsFailure /\ last'.arg = last.arg) =>
          /\ last'.inner = ESM_PT_UNASSIGNED
          /\ last'.nfree = 0
          /\ heap' = heap
          /\ TableUnchanged]_vars
  /\ [](~corrupt => heap = Owned(pdn))

\* A delete has been repeated on an entry that the call before released.
C9_Witness ==
  /\ last.op = "failure" /\ last.seq = 3 /\ last.arg \in Slots
  /\ last.inner = ESM_PT_UNASSIGNED
  /\ pdn[last.arg].data = NULL

\* C10 (as claimed): the request that follows a request returning i and a
\* failure releasing i returns i.
C10_Original == (last.op = "request" /\ last.seq = 2) => last.rc = last.ref

\* C10 (amended): the request that follows a request returning i and a
\* failure releasing i returns i, unless its record cannot be allocated, and
\* then it returns RETURNerror.
C10_Reuse ==
  (last.op = "request" /\ last.seq = 2) =>
    IF last.nomem THEN last.rc = RETURNerror ELSE last.rc = last.ref

\* A request, a failure and a request have returned 1, RETURNok and 1.
C10_Witness ==
  /\ last.op = "request" /\ last.seq = 2
  /\ last.ref = 1 /\ last.rc = 1

\* C11: a request that returns gives the non-negative identifier of the new
\* connection with the cause ESM_CAUSE_SUCCESS when the create succeeded, and
\* RETURNerror with ESM_CAUSE_INSUFFICIENT_RESOURCES when it failed; the new
\* connection is an emergency one exactly when the request type is
\* ESM_PDN_REQUEST_EMERGENCY, and its pti is the pti of the request.
C11_RequestOutcome ==
  (last.op = "request" /\ last.returned) =>
    IF last.inner >= 0
      THEN /\ last.rc = last.inner
           /\ last.rc \in Occupied(pdn)
           /\ last.cause = ESM_CAUSE_SUCCESS
           /\ pdn[last.rc].data[1].is_emergency
                = (last.rtype = ESM_PDN_REQUEST_EMERGENCY)
           /\ pdn[last.rc].data[1].pti = last.arg
      ELSE /\ last.rc = RETURNerror
           /\ last.cause = ESM_CAUSE_INSUFFICIENT_RESOURCES

\* An emergency request with a valid pti has created a connection beside
\* another one.
C11_Witness ==
  /\ last.op = "request"
  /\ last.rtype = ESM_PDN_REQUEST_EMERGENCY
  /\ last.arg = SomePti
  /\ last.rc >= 0
  /\ pdn[last.rc].data[1].is_emergency
  /\ n_pdns > 1

\* C12: a reject with is_standalone set hands exactly one EMMESM_UNITDATA_REQ
\* primitive with the given context and the given message (length and bytes)
\* to emm_sap_send and returns what emm_sap_send returned; with is_standalone
\* clear it sends nothing and returns RETURNerror.
C12_RejectNotifies ==
  last.op = "reject" =>
    IF last.flag
      THEN /\ Len(last.sent) = 1
           /\ last.sent[1].primitive = EMMESM_UNITDATA_REQ
           /\ last.sent[1].ctx = last.arg
           /\ last.sent[1].length = last.msg[1].length
           /\ last.sent[1].value = last.msg[1].value
           /\ last.rc = last.inner
      ELSE /\ last.sent = <<>>
           /\ last.rc = RETURNerror

\* A standalone reject of a two-byte message was sent with success while a
\* connection exists.
C12_Witness ==
  /\ last.op = "reject"
  /\ last.flag
  /\ last.rc = RETURNok
  /\ Len(last.sent) = 1
  /\ last.sent[1].length > 1
  /\ n_pdns > 0

\* C13: over every sequence of request, reject and failure calls interleaved
\* with the activation of entries, an occupied entry becomes free only by a
\* failure call for that entry made while its is_active is false, and no
\* request, reject or failure call changes an entry whose is_active is true.
C13_ActiveUntouched ==
  [][\A i \in Slots :
       /\ (pdn[i].data # NULL /\ pdn'[i].data = NULL) =>
            (IsFailure /\ last'.arg = i /\ ~pdn[i].is_active)
       /\ (pdn[i].is_active /\ last'.op \in {"request", "reject", "failure"}) =>
            pdn'[i] = pdn[i]]_vars

\* A failure call has released one entry while another entry is active.
C13_Witness ==
  /\ last.op = "failure"
  /\ last.rc = RETURNok
  /\ last.arg \in Slots
  /\ pdn[last.arg].data = NULL
  /\ \E i \in Slots : pdn[i].is_active

\* C14 (as claimed): after a successful create with an access point name of
\* length L > 0 the stored name has length L, its first L bytes are those
\* given and the byte after them is zero; a create with no name or with an
\* empty name completes as any other create and leaves the stored name empty.
C14_Original ==
  last.op = "request" =>
    IF last.apn # NULL /\ last.apn[1].length > 0
      THEN (last.returned /\ last.inner >= 0) =>
             LET stored == pdn[last.inner].data[1].apn
                 L == last.apn[1].length
             IN  /\ stored.length = L
                 /\ stored.value # NULL
                 /\ Len(stored.value) = L + 1
                 /\ SubSeq(stored.value, 1, L) = last.apn[1].value
                 /\ stored.value[L + 1] = 0
      ELSE /\ last.returned
           /\ last.inner >= 0 =>
                pdn[last.inner].data[1].apn = [length |-> 0, value |-> NULL]

Done(dec) == ie.st = "done" /\ ie.dec = dec

\* C16 (as claimed): every decoder reads only the offsets 0 .. ieLength - 1
\* of the element, whatever ieLength and the bytes are, and does not return
\* NW_OK for an element with no byte, which is shorter than the structure
\* of every decoder.
C16_Original ==
  /\ \A k \in ie.reads : k < ie.len
  /\ (ie.st = "done" /\ ie.len = 0) => ie.rc # NW_OK

\* C17 (as claimed): the loop of the TMGI decoder makes at most
\* MBMS_SERVICE_ID_DIGITS iterations, and the loop of the service area
\* decoder makes at most num_service_area iterations and exactly that many
\* when the decoder returns.
C17_Original ==
  /\ ie.dec = "sm_tmgi_ie_get" => ie.iter <= MBMS_SERVICE_ID_DIGITS
  /\ (ie.dec = "sm_mbms_service_area_ie_get" /\ ie.st = "loop") =>
       ie.iter <= ie.out.num_service_area
  /\ Done("sm_mbms_service_area_ie_get") => ie.iter = ie.out.num_service_area

\* C18: sm_mbms_flags_ie_get with ieLength 1 returns NW_OK with msri set
\* exactly when bit 0 of the byte is set and lmri set exactly when bit 1 is;
\* with any other ieLength it returns NW_GTPV2C_IE_INCORRECT and leaves the
\* output record as it was.
C18_BearerFlags ==
  Done("sm_mbms_flags_ie_get") =>
    IF ie.len = 1
      THEN /\ ie.rc = NW_OK
           /\ ie.out.msri = (ie.val[1] % 2 = 1)
           /\ ie.out.lmri = ((ie.val[1] \div 2) % 2 = 1)
      ELSE /\ ie.rc = NW_GTPV2C_IE_INCORRECT
           /\ ie.out = ie.prior

\* The byte 0x01 was decoded into a record whose flags were both set: msri
\* is set and lmri is clear.
C18_Witness ==
  /\ Done("sm_mbms_flags_ie_get")
  /\ ie.val = <<1>>
  /\ ie.prior.lmri
  /\ ie.rc = NW_OK
  /\ ie.out = [msri |-> TRUE, lmri |-> FALSE]

\* C19: in sm_mbms_ip_multicast_distribution_ie_get, for the distribution
\* address and for the source address alike, a descriptor whose top two bits
\* are 2 or 3 makes the decoder return NW_FAILURE, and so does the family 1
\* with low six bits other than 16; with the family 0 the four bytes after
\* the descriptor are the address and what follows them is read next, and
\* with the family 1 and the length 16 the 16 bytes after the descriptor
\* are copied as they are and what follows them is read next.
C19_AddressFamily ==
  Done("sm_mbms_ip_multicast_distribution_ie_get") =>
    LET v == ie.val
        d == 4
    IN  Len(v) > d =>
          LET f1 == v[d + 1] \div 64
              l1 == v[d + 1] % 64
              s == d + 1 + (IF f1 = 0 THEN 4 ELSE 16)
          IN  /\ f1 \in {2, 3} => ie.rc = NW_FAILURE
              /\ (f1 = 1 /\ l1 # 16) => ie.rc = NW_FAILURE
              /\ (f1 = 0 /\ Len(v) >= d + 5) =>
                   SubSeq(ie.out.distribution_address, 1, 4) = SubSeq(v, d + 2, d + 5)
              /\ (f1 = 1 /\ l1 = 16 /\ Len(v) >= d + 17) =>
                   ie.out.distribution_address = SubSeq(v, d + 2, d + 17)
              /\ ((f1 = 0 \/ (f1 = 1 /\ l1 = 16)) /\ Len(v) > s) =>
                   LET f2 == v[s + 1] \div 64
                       l2 == v[s + 1] % 64
                   IN  /\ ie.out.sa_type = f2
                       /\ f2 \in {2, 3} => ie.rc = NW_FAILURE
                       /\ (f2 = 1 /\ l2 # 16) => ie.rc = NW_FAILURE
                       /\ (f2 = 0 /\ Len(v) >= s + 5) =>
                            /\ ie.rc = NW_OK
                            /\ SubSeq(ie.out.source_address, 1, 4)
                                 = SubSeq(v, s + 2, s + 5)
                            /\ ie.off = s + 6
                       /\ (f2 = 1 /\ l2 = 16 /\ Len(v) >= s + 17) =>
                            /\ ie.rc = NW_OK
                            /\ ie.out.source_address = SubSeq(v, s + 2, s + 17)
                            /\ ie.off = s + 18

\* An element with an IPv4 distribution address and the IPv6 source address
\* 2001:db8::1 was decoded to its last byte.
C19_Witness ==
  /\ Done("sm_mbms_ip_multicast_distribution_ie_get")
  /\ ie.rc = NW_OK
  /\ ie.out.da_type = 0
  /\ ie.out.sa_type = 1
  /\ ie.out.source_address[1] = 32
  /\ ie.out.source_address[16] = 1
  /\ ie.off = ie.len

\* C20 (as claimed): the element starts with the distribution tagged address
\* at byte 0, so that an element whose byte 0 is the descriptor 0x00 followed
\* by the four bytes of an IPv4 address a decodes to the distribution
\* address a.
C20_Original ==
  (Done("sm_mbms_ip_multicast_distribution_ie_get")
     /\ ie.len >= 5 /\ ie.val[1] = 0) =>
    /\ ie.out.da_type = 0
    /\ SubSeq(ie.out.distribution_address, 1, 4) = SubSeq(ie.val, 2, 5)

\* C20 (amended): the element starts with the four bytes of the CTEID; the
\* distribution tagged address starts at byte 4,
\* the source tagged address follows it at once and one flag byte follows
\* that. An element whose byte 4 is the descriptor 0x00 followed by the four
\* bytes of an IPv4 address a decodes to the distribution address a, stored
\* in network byte order whatever the byte order of the host is.
C20_Layout ==
  (Done("sm_mbms_ip_multicast_distribution_ie_get")
     /\ ie.len >= 9 /\ ie.val[5] = 0) =>
    /\ ie.out.da_type = 0
    /\ SubSeq(ie.out.distribution_address, 1, 4) = SubSeq(ie.val, 6, 9)
    /\ ie.len >= 10 => ie.out.sa_type = ie.val[10] \div 64
    /\ (ie.len >= 15 /\ ie.val[10] \div 64 = 0) =>
         /\ ie.rc = NW_OK
         /\ SubSeq(ie.out.source_address, 1, 4) = SubSeq(ie.val, 11, 14)
         /\ ie.out.hc_indication = ie.val[15]

\* On a little-endian host, an element with a CTEID, the descriptor 0x00 and
\* the address 192.0.2.255 was decoded to that address.
C20_Witness ==
  /\ Done("sm_mbms_ip_multicast_distribution_ie_get")
  /\ ie.endian = "little"
  /\ ie.len = 15
  /\ ie.val[5] = 0
  /\ SubSeq(ie.val, 6, 9) = <<192, 0, 2, 255>>
  /\ ie.rc = NW_OK
  /\ SubSeq(ie.out.distribution_address, 1, 4) = <<192, 0, 2, 255>>

\* C21 (as claimed): for a count byte n followed by n two-byte codes,
\* sm_mbms_service_area_ie_get makes no more than n iterations, stores in
\* element i the two bytes at the offsets 1 + 2i and 2 + 2i in the order they
\* have in the element, writes no element from n on, and returns NW_OK with
\* num_service_area = n.
C21_Original ==
  (/\ ie.dec = "sm_mbms_service_area_ie_get"
   /\ ie.st \in {"loop", "done"}
   /\ ie.len > 0
   /\ ie.len = 1 + 2 * ie.val[1]
   /\ ie.val[1] <= MaxServiceArea) =>
    LET n == ie.val[1]
    IN  /\ ie.out.num_service_area = n
        /\ ie.iter <= n
        /\ \A i \in 0 .. (MaxServiceArea - 1) :
             IF i < ie.iter /\ i < n
               THEN Mem16(ie.out.serviceArea[i], ie.endian)
                      = <<ie.val[2 + 2 * i], ie.val[3 + 2 * i]>>
               ELSE ie.out.serviceArea[i] = ie.prior.serviceArea[i]
        /\ ie.st = "done" => (ie.rc = NW_OK /\ ie.iter = n)

\* The value accumulated from 0 over the first k bytes of v, each step being
\* value * 256 + byte.
RECURSIVE AccumFromZero(_, _)
AccumFromZero(v, k) ==
  IF k = 0 THEN <<0, 0, 0, 0>> ELSE ShiftIn(AccumFromZero(v, k - 1), v[k])

\* C22 (as claimed): for an element of MBMS_SERVICE_ID_DIGITS + 3 bytes given
\* with a zeroed record, sm_tmgi_ie_get does not stop at an assertion, makes
\* no more than MBMS_SERVICE_ID_DIGITS iterations, and returns NW_OK with
\* serviceId the value accumulated over the first MBMS_SERVICE_ID_DIGITS
\* bytes and the PLMN digits taken from the three bytes after them.
C22_Original ==
  (/\ ie.dec = "sm_tmgi_ie_get"
   /\ ie.len = MBMS_SERVICE_ID_DIGITS + 3
   /\ ie.prior = ZeroTmgi) =>
    LET n == MBMS_SERVICE_ID_DIGITS
    IN  /\ ie.st # "abort"
        /\ ie.iter <= n
        /\ ie.st = "done" =>
             /\ ie.rc = NW_OK
             /\ ie.out.serviceId = AccumFromZero(ie.val, n)
             /\ ie.out.plmn =
                  [mcc_digit2 |-> ie.val[n + 1] \div 16,
                   mcc_digit1 |-> ie.val[n + 1] % 16,
                   mnc_digit3 |-> ie.val[n + 2] \div 16,
                   mcc_digit3 |-> ie.val[n + 2] % 16,
                   mnc_digit2 |-> ie.val[n + 3] \div 16,
                   mnc_digit1 |-> ie.val[n + 3] % 16]

\* C23: a create given an address of length n > 0 copies its first
\* min(n, ESM_DATA_IP_ADDRESS_SIZE) bytes to the start of ip_addr, which keeps
\* its capacity and is zero after them, and stores pdn_type in type; a create
\* given no address, or one of length 0, leaves ip_addr all zero and type at
\* zero whatever pdn_type is.
C23_AddressStorage ==
  (last.op = "request" /\ last.returned /\ last.inner >= 0) =>
    LET rec == pdn[last.inner].data[1]
        a == last.addr
    IN  /\ DOMAIN rec.ip_addr = 1 .. ESM_DATA_IP_ADDRESS_SIZE
        /\ IF a # NULL /\ a[1].length > 0
             THEN LET n == IF a[1].length < ESM_DATA_IP_ADDRESS_SIZE
                             THEN a[1].length ELSE ESM_DATA_IP_ADDRESS_SIZE
                  IN  /\ \A k \in 1 .. ESM_DATA_IP_ADDRESS_SIZE :
                           rec.ip_addr[k] = (IF k <= n THEN a[1].value[k] ELSE 0)
                      /\ rec.type = last.ptype
             ELSE /\ \A k \in 1 .. ESM_DATA_IP_ADDRESS_SIZE : rec.ip_addr[k] = 0
                  /\ rec.type = 0

\* A request of type IPv6 with an address longer than the buffer has created
\* a connection beside one created without an address.
C23_Witness ==
  /\ last.op = "request"
  /\ last.inner >= 0
  /\ last.ptype = ESM_PDN_TYPE_IPV6
  /\ last.addr # NULL
  /\ last.addr[1].length > ESM_DATA_IP_ADDRESS_SIZE
  /\ pdn[last.inner].data[1].type = ESM_PDN_TYPE_IPV6
  /\ \E j \in Occupied(pdn) : pdn[j].data[1].type = 0

\* C24: the IP multicast decoder returns, for a distribution address of
\* family 1 whose length field is not 16, a code that is not success and
\* that differs from the code it returns for every element whose
\* distribution address has a family outside {0, 1}.
C24_Original ==
  (/\ Done("sm_mbms_ip_multicast_distribution_ie_get")
   /\ ie.len >= 5
   /\ BitAnd(ie.val[5], 192) = 64
   /\ BitAnd(ie.val[5], 63) # 16) =>
    /\ ie.rc # NW_OK
    /\ \A w \in IpMulticastValues :
         (Len(w) >= 5 /\ BitAnd(w[5], 192) \in {128, 192}) =>
           LET r == IpMulticastGet(Len(w), w, ie.prior, 0, ie.endian)
           IN  r.rc # NW_OK /\ r.rc # ie.rc

\* C25: when both addresses of an IP multicast element decode and the byte
\* after them lies in the element, hc_indication is true (not zero) exactly
\* when bit 0 of that byte is set, whatever its other bits are.
C25_Original ==
  (/\ Done("sm_mbms_ip_multicast_distribution_ie_get")
   /\ ie.rc = NW_OK
   /\ ie.off <= ie.len) =>
    ((ie.out.hc_indication # 0) <=> (BitAnd(ie.val[ie.off], 1) = 1))

\* C26: what a decoder stores and returns depends on the element alone, not
\* on the record it is given: the service identity sm_tmgi_ie_get has
\* accumulated over the first k bytes of the element is the one it
\* accumulates from a zeroed record, and sm_mbms_flags_ie_get returns the
\* code, and on NW_OK stores the flags, it does for every other record.
C26_Original ==
  /\ (/\ ie.dec = "sm_tmgi_ie_get"
      /\ ie.st = "loop"
      /\ ie.iter >= 1
      /\ ie.iter <= ie.len) =>
       ie.out.serviceId = AccumFromZero(ie.val, ie.iter)
  /\ (Done("sm_mbms_flags_ie_get") /\ ie.len >= 1) =>
       \A p \in FlagsPriors :
         LET r == FlagsGet(ie.len, ie.val, p, 0, ie.endian)
         IN  r.rc = ie.rc /\ (ie.rc = NW_OK => r.out = ie.out)

\* C27: a request that creates a connection changes no entry but the one it
\* returns, and one that creates none changes no entry and not the counter;
\* a failure call for pid i changes no entry but entry i; a reject call
\* changes no entry and not the counter. Every other entry keeps its pid,
\* its is_active flag and its record.
C27_Frame ==
  [][/\ IsRequest =>
          IF last'.inner >= 0
            THEN \A j \in Slots \ {last'.inner} : pdn'[j] = pdn[j]
            ELSE TableUnchanged
     /\ IsFailure => \A j \in Slots \ {last'.arg} : pdn'[j] = pdn[j]
     /\ last'.op = "reject" => TableUnchanged]_vars

\* A failure call has released one entry of a full table: the other entries
\* are still occupied.
C27_Witness ==
  /\ last.op = "failure"
  /\ last.rc = RETURNok
  /\ last.arg \in Slots
  /\ pdn[last.arg].data = NULL
  /\ n_pdns = ESM_DATA_PDN_MAX - 1
  /\ \A j \in Slots \ {last.arg} : pdn[j].data # NULL /\ pdn[j].pid = j

\* C28 (as claimed): with requests and failure calls alone and any pti at
\* creation, once no more request is made and the failure trigger is called
\* for every occupied entry, the table is eventually empty for good: n_pdns
\* is 0 and every entry is free.
C28_Original ==
  ([]<><<IsRequest>>_vars)
    \/ <>[](n_pdns = 0 /\ \A i \in Slots : pdn[i].data = NULL)

====
